---- MODULE Spec2Model ----
(***************************************************************************)
(* Model of kuka_sunrise_fri_driver's FRIConnection (fri_connection.cpp): *)
(* the synchronous command/response channel over a TCP transport.         *)
(*                                                                         *)
(* Caller threads run the public operations statement by statement; the   *)
(* transport context runs handleReceivedTCPData, whose body is one         *)
(* critical section of the mutex m_.  Variables whose names end in "_"    *)
(* are the members of FRIConnection; pc/op/command/result/ret are the     *)
(* call frames; the remaining variables are history variables that only   *)
(* record what happened.                                                   *)
(***************************************************************************)
EXTENDS Integers, Sequences, FiniteSets, TLC

\* ------------------------------------------------------------------ bounds
\* number of public operations called in one behaviour
MaxCalls == 2
\* number of chunks the transport delivers in one behaviour
MaxMsgs == 3
\* link losses the transport reports
MaxLosses == 1
\* datagrams the datagram server receives
MaxDatagrams == 2

\* ------------------------------------------------- enumerators of the code
\* CommandState, the first byte of a received chunk
ACCEPTED == "ACCEPTED"
REJECTED == "REJECTED"
UNKNOWN == "UNKNOWN"
ERROR_CONTROL_ENDED == "ERROR_CONTROL_ENDED"
ERROR_FRI_ENDED == "ERROR_FRI_ENDED"
\* a first byte that is none of the CommandState enumerators (the default: case)
INVALID_STATE == "INVALID_STATE"

\* CommandID, the first byte of a transmitted command
CONNECT == "CONNECT"
DISCONNECT == "DISCONNECT"
START_FRI == "START_FRI"
SET_CONTROL_MODE == "SET_CONTROL_MODE"

\* CommandSuccess
SUCCESS == "SUCCESS"
NO_SUCCESS == "NO_SUCCESS"

\* ControlModeID, the payload byte of setPositionControlMode
POSITION_CONTROL_MODE == "POSITION_CONTROL_MODE"

CommandStates == {ACCEPTED, REJECTED, UNKNOWN, ERROR_CONTROL_ENDED, ERROR_FRI_ENDED}
\* the first bytes of the two session-end chunks
SessionEnds == {ERROR_CONTROL_ENDED, ERROR_FRI_ENDED}
\* the first bytes of a Rejected and of an Unrecognized outcome
Failures == {REJECTED, UNKNOWN, INVALID_STATE}
CommandIDs == {CONNECT, DISCONNECT, START_FRI, SET_CONTROL_MODE}
CommandSuccesses == {SUCCESS, NO_SUCCESS}

\* nullptr of the unique_ptr tcp_connection_; a TCPConnection object is a number > 0
NULLPTR == 0

\* ----------------------------------------------------------------- threads
\* the one caller of a correctly used channel, and a second, unserialized caller
Callers == {"c1"}
ConcCallers == {"c1", "c2"}
\* the context in which a TCPConnection runs the callbacks given to it: a chunk is
\* handled in one step, connectionLostCallback is a thread's worth of steps
Transport == "transport"
Threads == ConcCallers \cup {Transport}

\* the mutex m_ when no thread holds it
FREE == "free"

\* ------------------------------------------------------- received chunks
\* chunks in the outcome wire format, and the empty chunk
WellFormed ==
    {<<>>}
    \cup {<<ACCEPTED, id, s>> : id \in CommandIDs, s \in CommandSuccesses}
    \cup {<<REJECTED, id>> : id \in CommandIDs}
    \cup {<<UNKNOWN>>, <<ERROR_CONTROL_ENDED>>, <<ERROR_FRI_ENDED>>, <<INVALID_STATE>>}

\* ACCEPTED with fewer than 3 bytes, REJECTED with fewer than 2
Short ==
    {<<ACCEPTED>>, <<REJECTED>>} \cup {<<ACCEPTED, id>> : id \in CommandIDs}

\* no chunk / no outcome (history variables)
NoMsg == <<"none">>

\* the chunk that reports command_id accepted and carried out
Accepted(command_id) == <<ACCEPTED, command_id, SUCCESS>>

VARIABLES
    tcp_connection_,        \* NULLPTR or the TCPConnection object held
    last_command_state_,
    last_command_id_,
    last_command_success_,
    answer_wanted_,
    answer_received_,
    m_,                     \* FREE or the thread holding the mutex
    pc,                     \* each thread's position
    op,                     \* the public operation each thread is in
    command,                \* sendCommandAndWait's command_id and bytes to send
    result,                 \* what sendCommandAndWait returned to the operation
    ret,                    \* what the public operation returned
    controlEndedCalls,      \* detached threads started on handleControlEndedError_
    friEndedCalls,          \* detached threads started on handleFRIEndedError_
    crashed,                \* the process ended on undefined behaviour
    objects,                \* TCPConnection objects constructed so far
    calls,                  \* public operations called so far
    msgs,                   \* chunks delivered so far
    lastChunk,              \* history: first byte of the chunk delivered last
    lastOutcome,            \* history: the chunk taken for an outcome last
    obs,                    \* history: what each thread's current call did
    losses,                 \* link losses reported so far
\* UDPServer
    initialized_,
    remote_endpoint_,       \* the peer of the datagram received last
    server_data_,
    pending,                \* the asynchronous operation outstanding on p_socket_
    outgoing,               \* the datagram handed to the asynchronous send
    callbacks,              \* history: calls of p_interface_->callback so far
    sends,                  \* history: asynchronous sends started so far
    exchanges               \* history: one record for each receive completion

members == <<tcp_connection_, last_command_state_, last_command_id_,
             last_command_success_, answer_wanted_, answer_received_>>
record == <<last_command_state_, last_command_id_, last_command_success_>>
frames == <<pc, op, command, result, ret>>
handlers == <<controlEndedCalls, friEndedCalls>>
server == <<initialized_, remote_endpoint_, server_data_, pending, outgoing, callbacks,
            sends, exchanges>>
history == <<calls, msgs, lastChunk, lastOutcome, obs>>
channel == <<members, m_, frames, handlers, crashed, objects, history, losses>>
vars == <<channel, server>>

\* ----------------------------------------------------- datagram server
\* the peers that send datagrams, and no peer
Peers == {"P1", "P2"}
NoPeer == "nobody"
\* the reply payloads a Callback Consumer returns
Replies == {<<"r1">>, <<"r1", "r2">>}
NoDatagram == [to |-> NoPeer, bytes |-> <<>>]

\* ------------------------------------------------------------ positions
\* the positions inside sendCommandAndWait after answer_wanted_ = true
AwaitingPcs == {"scw_send", "scw_lock", "scw_wait", "scw_blocked"}
Outstanding(t) == pc[t] \in AwaitingPcs
Done(t) == pc[t] = "done"
\* sendCommandAndWait has been entered by the thread's current call (history)
Submitted(t) == pc[t] = "scw_begin" \/ Outstanding(t) \/ obs[t].wantedSet

NoObs ==
    [sent |-> <<>>, openFailed |-> FALSE, sendFailed |-> FALSE, transmitted |-> FALSE,
     wantedSet |-> FALSE, waited |-> FALSE, next |-> "none", resolvedBy |-> NoMsg,
     handle |-> NULLPTR, failureSeen |-> FALSE, sessionEndSeen |-> FALSE,
     earlyOutcome |-> FALSE, reconnecting |-> FALSE, opens |-> 0]

\* ------------------------------------------------------------------ Init
\* FRIConnection::FRIConnection
Init ==
    /\ tcp_connection_ = NULLPTR
    /\ last_command_state_ = ACCEPTED
    /\ last_command_id_ = CONNECT
    /\ last_command_success_ = NO_SUCCESS
    /\ answer_wanted_ = FALSE
    /\ answer_received_ = FALSE
    /\ m_ = FREE
    /\ pc = [t \in Threads |-> "idle"]
    /\ op = [t \in Threads |-> "none"]
    /\ command = [t \in Threads |-> <<>>]
    /\ result = [t \in Threads |-> FALSE]
    /\ ret = [t \in Threads |-> FALSE]
    /\ controlEndedCalls = 0
    /\ friEndedCalls = 0
    /\ crashed = FALSE
    /\ objects = 0
    /\ calls = 0
    /\ msgs = 0
    /\ lastChunk = [tag |-> "none", awaiting |-> {}]
    /\ lastOutcome = NoMsg
    /\ obs = [t \in Threads |-> NoObs]
    /\ losses = 0
    /\ initialized_ = FALSE
    /\ remote_endpoint_ = NoPeer
    /\ server_data_ = [port_number |-> NoPeer, bytes_transferred |-> 0]
    /\ pending = "unconstructed"
    /\ outgoing = NoDatagram
    /\ callbacks = 0
    /\ sends = 0
    /\ exchanges = <<>>

\* ------------------------------------------------------ pure functions
\* FRIConnection::isConnected
isConnected == tcp_connection_ # NULLPTR

\* assertLastCommandSuccess without the test of last_command_state_
assert_ignoring_state(command_id) ==
    /\ last_command_id_ = command_id
    /\ last_command_success_ = SUCCESS

\* assertLastCommandSuccess without the test of last_command_id_
assert_ignoring_id(command_id) ==
    /\ last_command_state_ = ACCEPTED
    /\ last_command_success_ = SUCCESS

\* FRIConnection::assertLastCommandSuccess
assertLastCommandSuccess(command_id) ==
    /\ last_command_state_ = ACCEPTED
    /\ last_command_id_ = command_id
    /\ last_command_success_ = SUCCESS

\* the public operations and the bytes each passes to sendCommandAndWait
Operations == {"connect", "disconnect", "startFRI", "setPositionControlMode"}
\* FRIConnection::~FRIConnection and FRIConnection::connectionLostCallback
Destructor == "~FRIConnection"
ConnectionLost == "connectionLostCallback"
\* the public operation an entry point runs: the destructor calls disconnect(),
\* connectionLostCallback calls connect(server_addr, server_port)
Runs(o) ==
    CASE o = Destructor -> "disconnect"
      [] o = ConnectionLost -> "connect"
      [] OTHER -> o
\* the object's destructor has been entered / connectionLostCallback has not returned
Destroying == \E t \in Threads : op[t] = Destructor
Reconnecting == op[Transport] = ConnectionLost /\ pc[Transport] # "done"
CommandOf(o) ==
    CASE o = "connect" -> <<CONNECT>>
      [] o = "disconnect" -> <<DISCONNECT>>
      [] o = "startFRI" -> <<START_FRI>>
      [] o = "setPositionControlMode" -> <<SET_CONTROL_MODE, POSITION_CONTROL_MODE>>

\* what an undefined operation does to the process: it ends it (TRUE) or the process
\* goes on (FALSE); a defined operation never ends it
UndefinedIf(undefined) == IF undefined THEN BOOLEAN ELSE {FALSE}

\* leave the public operation with value v
Return(t, v) ==
    /\ pc' = [pc EXCEPT ![t] = "done"]
    /\ ret' = [ret EXCEPT ![t] = v]

\* ------------------------------------------------------------- actions
\* thread t enters o, an operation of the channel
Enter(t, o) ==
    /\ ~crashed
    /\ pc[t] \in {"idle", "done"}
    /\ ~Destroying
    /\ op' = [op EXCEPT ![t] = o]
    /\ command' = [command EXCEPT ![t] = CommandOf(Runs(o))]
    /\ pc' = [pc EXCEPT ![t] =
                CASE Runs(o) = "connect" -> "connect_open"
                  [] Runs(o) = "disconnect" -> "disconnect_check"
                  [] OTHER -> "scw_begin"]
    /\ obs' = [obs EXCEPT ![t] = [NoObs EXCEPT !.handle = tcp_connection_,
                                               !.reconnecting = Reconnecting]]
    /\ UNCHANGED <<members, m_, result, ret, handlers, crashed, objects, msgs,
                   lastChunk, lastOutcome>>
    /\ UNCHANGED server

\* a caller thread calls a public operation
Call(t, o) ==
    /\ calls < MaxCalls
    /\ calls' = calls + 1
    /\ Enter(t, o)
    /\ UNCHANGED losses

\* connect, the try block: make_unique<TCPConnection> succeeds and the new object
\* replaces the held one, or it throws and the handler resets the pointer
connect_open(t) ==
    /\ ~crashed
    /\ pc[t] = "connect_open"
    /\ \E opened \in BOOLEAN :
        /\ tcp_connection_' = IF opened THEN objects + 1 ELSE NULLPTR
        /\ objects' = IF opened THEN objects + 1 ELSE objects
        /\ obs' = [obs EXCEPT ![t].openFailed = ~opened, ![t].opens = @ + 1]
    /\ pc' = [pc EXCEPT ![t] = "connect_check"]
    /\ UNCHANGED <<record, answer_wanted_, answer_received_, m_, op, command, result,
                   ret, handlers, crashed, calls, msgs, lastChunk, lastOutcome>>
    /\ UNCHANGED <<losses, server>>

\* connect without the early return: sendCommandAndWait(CONNECT) whatever the open did
connect_check_missing(t) ==
    /\ ~crashed
    /\ pc[t] = "connect_check"
    /\ pc' = [pc EXCEPT ![t] = "scw_begin"]
    /\ UNCHANGED <<members, m_, op, command, result, ret, handlers, crashed, objects, history>>
    /\ UNCHANGED <<losses, server>>

\* connect that opens the transport again when the open has failed
connect_check_retrying(t) ==
    /\ ~crashed
    /\ pc[t] = "connect_check"
    /\ pc' = [pc EXCEPT ![t] = IF ~isConnected THEN "connect_open" ELSE "scw_begin"]
    /\ UNCHANGED <<members, m_, op, command, result, ret, handlers, crashed, objects, history>>
    /\ UNCHANGED <<losses, server>>

\* connect: if (!isConnected()) return false; return sendCommandAndWait(CONNECT);
connect_check(t) ==
    /\ ~crashed
    /\ pc[t] = "connect_check"
    /\ IF ~isConnected
         THEN Return(t, FALSE)
         ELSE pc' = [pc EXCEPT ![t] = "scw_begin"] /\ UNCHANGED ret
    /\ UNCHANGED <<members, m_, op, command, result, handlers, crashed, objects, history>>
    /\ UNCHANGED <<losses, server>>

\* disconnect without the test for nullptr
disconnect_check_missing(t) ==
    /\ ~crashed
    /\ pc[t] = "disconnect_check"
    /\ pc' = [pc EXCEPT ![t] = "scw_begin"]
    /\ UNCHANGED <<members, m_, op, command, result, ret, handlers, crashed, objects, history>>
    /\ UNCHANGED <<losses, server>>

\* disconnect: if (tcp_connection_ == nullptr) return true; sendCommandAndWait(DISCONNECT)
disconnect_check(t) ==
    /\ ~crashed
    /\ pc[t] = "disconnect_check"
    /\ IF tcp_connection_ = NULLPTR
         THEN Return(t, TRUE)
         ELSE pc' = [pc EXCEPT ![t] = "scw_begin"] /\ UNCHANGED ret
    /\ UNCHANGED <<members, m_, op, command, result, handlers, crashed, objects, history>>
    /\ UNCHANGED <<losses, server>>

\* sendCommandAndWait: answer_wanted_ = true;
scw_begin(t) ==
    /\ ~crashed
    /\ pc[t] = "scw_begin"
    /\ answer_wanted_' = TRUE
    /\ pc' = [pc EXCEPT ![t] = "scw_send"]
    /\ obs' = [obs EXCEPT ![t].wantedSet = TRUE]
    /\ UNCHANGED <<tcp_connection_, record, answer_received_, m_, op, command, result,
                   ret, handlers, crashed, objects, calls, msgs, lastChunk, lastOutcome>>
    /\ UNCHANGED <<losses, server>>

\* sendCommandAndWait: tcp_connection_->sendByte(command_id) / sendBytes(msg).  The
\* transport's result is not looked at.  Through a null pointer the call is undefined:
\* the process ends, or it goes on with nothing transmitted.
scw_send(t) ==
    /\ ~crashed
    /\ pc[t] = "scw_send"
    /\ \E sendOk \in BOOLEAN, ended \in UndefinedIf(tcp_connection_ = NULLPTR) :
        IF tcp_connection_ = NULLPTR
          THEN /\ crashed' = ended
               /\ obs' = [obs EXCEPT ![t].sendFailed = TRUE, ![t].transmitted = TRUE]
          ELSE /\ crashed' = crashed
               /\ obs' = [obs EXCEPT ![t].sent = Append(@, command[t]),
                                     ![t].sendFailed = ~sendOk,
                                     ![t].transmitted = TRUE]
    /\ pc' = [pc EXCEPT ![t] = "scw_lock"]
    /\ UNCHANGED <<members, m_, op, command, result, ret, handlers, objects, calls,
                   msgs, lastChunk, lastOutcome>>
    /\ UNCHANGED <<losses, server>>

\* sendCommandAndWait that clears answer_received_ once it holds the lock, before it waits
scw_lock_clearing(t) ==
    /\ ~crashed
    /\ pc[t] = "scw_lock"
    /\ m_ = FREE
    /\ m_' = t
    /\ answer_received_' = FALSE
    /\ pc' = [pc EXCEPT ![t] = "scw_wait"]
    /\ obs' = [obs EXCEPT ![t].waited = TRUE]
    /\ UNCHANGED <<tcp_connection_, record, answer_wanted_, op, command, result, ret,
                   handlers, crashed, objects, calls, msgs, lastChunk, lastOutcome>>
    /\ UNCHANGED <<losses, server>>

\* sendCommandAndWait: std::unique_lock<std::mutex> lk(m_);
scw_lock(t) ==
    /\ ~crashed
    /\ pc[t] = "scw_lock"
    /\ m_ = FREE
    /\ m_' = t
    /\ pc' = [pc EXCEPT ![t] = "scw_wait"]
    /\ obs' = [obs EXCEPT ![t].waited = TRUE]
    /\ UNCHANGED <<members, op, command, result, ret, handlers, crashed, objects,
                   calls, msgs, lastChunk, lastOutcome>>
    /\ UNCHANGED <<losses, server>>

\* sendCommandAndWait, holding m_: the predicate of cv_.wait is tested.  False: the
\* wait releases m_ and blocks.  True: both flags are cleared, the outcome record is
\* judged, and the lock is released on return.
scw_wait(t) ==
    /\ ~crashed
    /\ pc[t] = "scw_wait"
    /\ m_ = t
    /\ m_' = FREE
    /\ IF answer_received_
         THEN /\ answer_received_' = FALSE
              /\ answer_wanted_' = FALSE
              /\ result' = [result EXCEPT ![t] = assertLastCommandSuccess(command[t][1])]
              /\ obs' = [obs EXCEPT ![t].resolvedBy = lastOutcome]
              /\ IF Runs(op[t]) = "disconnect"
                   THEN pc' = [pc EXCEPT ![t] = "disconnect_after"] /\ UNCHANGED ret
                   ELSE Return(t, assertLastCommandSuccess(command[t][1]))
         ELSE /\ pc' = [pc EXCEPT ![t] = "scw_blocked"]
              /\ UNCHANGED <<answer_received_, answer_wanted_, result, ret, obs>>
    /\ UNCHANGED <<tcp_connection_, record, op, command, handlers, crashed, objects,
                   calls, msgs, lastChunk, lastOutcome>>
    /\ UNCHANGED <<losses, server>>

\* sendCommandAndWait, blocked in cv_.wait: woken with the predicate true, the thread
\* takes m_ again (a wake-up with the predicate false blocks again)
scw_blocked(t) ==
    /\ ~crashed
    /\ pc[t] = "scw_blocked"
    /\ answer_received_
    /\ m_ = FREE
    /\ m_' = t
    /\ pc' = [pc EXCEPT ![t] = "scw_wait"]
    /\ UNCHANGED <<members, op, command, result, ret, handlers, crashed, objects, history>>
    /\ UNCHANGED <<losses, server>>

\* disconnect that closes and releases the transport whatever the outcome was
disconnect_after_unconditional(t) ==
    /\ ~crashed
    /\ pc[t] = "disconnect_after"
    /\ tcp_connection_' = NULLPTR
    /\ crashed' \in UndefinedIf(tcp_connection_ = NULLPTR)
    /\ Return(t, result[t])
    /\ UNCHANGED <<record, answer_wanted_, answer_received_, m_, op, command, result,
                   handlers, objects, history>>
    /\ UNCHANGED <<losses, server>>

\* disconnect, after sendCommandAndWait(DISCONNECT): on true closeConnection() and
\* reset(), return true; else return false.  closeConnection() through a null pointer
\* is undefined.
disconnect_after(t) ==
    /\ ~crashed
    /\ pc[t] = "disconnect_after"
    /\ IF result[t]
         THEN /\ tcp_connection_' = NULLPTR
              /\ crashed' \in UndefinedIf(tcp_connection_ = NULLPTR)
              /\ Return(t, TRUE)
         ELSE /\ UNCHANGED <<tcp_connection_, crashed>>
              /\ Return(t, FALSE)
    /\ UNCHANGED <<record, answer_wanted_, answer_received_, m_, op, command, result,
                   handlers, objects, history>>
    /\ UNCHANGED <<losses, server>>

\* a step of caller thread t inside a public operation
Step(t) ==
    \/ connect_open(t)
    \/ connect_check(t)
    \/ disconnect_check(t)
    \/ scw_begin(t)
    \/ scw_send(t)
    \/ scw_lock(t)
    \/ scw_wait(t)
    \/ scw_blocked(t)
    \/ disconnect_after(t)

\* ------------------------------------------------------ receive handler
\* data[i] of the vector (i counted from 0): the byte, or, read past the end, any value
ByteAt(data, i, anyValue) == IF i < Len(data) THEN {data[i + 1]} ELSE anyValue

\* whether handleReceivedTCPData reads data past its end
ReadsPastEnd(data) ==
    /\ Len(data) > 0
    /\ \/ data[1] = ACCEPTED /\ Len(data) < 3
       \/ data[1] = REJECTED /\ Len(data) < 2

\* the session-end cases taken for an outcome whether or not a command is awaited
sessionEnd_always == TRUE

\* the session-end cases handed to the handler whether or not a command is awaited
sessionEnd_never == FALSE

\* handleReceivedTCPData, the test of the two session-end cases: if (answer_wanted_)
sessionEndIsOutcome == answer_wanted_

\* the handler called by handleReceivedTCPData itself: a handler that does not return
\* keeps the receive context inside the lock_guard
handler_called_in_place == "handler"

\* handleReceivedTCPData, pthread_create and pthread_detach: the handler runs on a
\* thread of its own, whether or not it ever returns, and leaving the block releases m_
handler_detached == FREE

\* FRIConnection::handleReceivedTCPData.  The body runs under lock_guard lk(m_), so it
\* is one step taken when m_ is free.  answer_wanted_ is read here under the lock and
\* written by sendCommandAndWait without it: the step sees the value before or after
\* that write.  pthread_create is taken to succeed; the detached thread it starts is
\* counted, the handler's own code is the owner's.
handleReceivedTCPData(data) ==
    /\ m_ = FREE
    /\ UNCHANGED <<tcp_connection_, answer_wanted_>>
    /\ m_' = IF Len(data) > 0 /\ data[1] \in SessionEnds /\ ~sessionEndIsOutcome
               THEN handler_detached
               ELSE m_
    /\ crashed' \in UndefinedIf(ReadsPastEnd(data))
    /\ IF Len(data) = 0
         THEN UNCHANGED <<record, answer_received_, handlers>>
         ELSE CASE data[1] = ACCEPTED ->
                     /\ last_command_state_' = ACCEPTED
                     /\ last_command_id_' \in ByteAt(data, 1, CommandIDs)
                     /\ last_command_success_' \in ByteAt(data, 2, CommandSuccesses)
                     /\ answer_received_' = TRUE
                     /\ UNCHANGED handlers
                [] data[1] = REJECTED ->
                     /\ last_command_state_' = REJECTED
                     /\ last_command_id_' \in ByteAt(data, 1, CommandIDs)
                     /\ answer_received_' = TRUE
                     /\ UNCHANGED <<last_command_success_, handlers>>
                [] data[1] = UNKNOWN ->
                     /\ last_command_state_' = UNKNOWN
                     /\ answer_received_' = TRUE
                     /\ UNCHANGED <<last_command_id_, last_command_success_, handlers>>
                [] data[1] = ERROR_CONTROL_ENDED ->
                     IF sessionEndIsOutcome
                       THEN /\ last_command_state_' = ERROR_CONTROL_ENDED
                            /\ answer_received_' = TRUE
                            /\ UNCHANGED <<last_command_id_, last_command_success_, handlers>>
                       ELSE /\ controlEndedCalls' = controlEndedCalls + 1
                            /\ UNCHANGED <<record, answer_received_, friEndedCalls>>
                [] data[1] = ERROR_FRI_ENDED ->
                     IF sessionEndIsOutcome
                       THEN /\ last_command_state_' = ERROR_FRI_ENDED
                            /\ answer_received_' = TRUE
                            /\ UNCHANGED <<last_command_id_, last_command_success_, handlers>>
                       ELSE /\ friEndedCalls' = friEndedCalls + 1
                            /\ UNCHANGED <<record, answer_received_, controlEndedCalls>>
                [] OTHER ->
                     /\ last_command_state_' = UNKNOWN
                     /\ answer_received_' = TRUE
                     /\ UNCHANGED <<last_command_id_, last_command_success_, handlers>>

\* the first byte of a chunk, "empty" for the empty chunk (history)
TagOf(data) == IF Len(data) = 0 THEN "empty" ELSE data[1]

\* whether handleReceivedTCPData takes the chunk for a command's outcome (history)
RecordsOutcome(data) ==
    /\ Len(data) > 0
    /\ data[1] \in {ERROR_CONTROL_ENDED, ERROR_FRI_ENDED} => answer_wanted_

\* the transport reports the loss of the link of the TCPConnection held by the channel
\* to the callback that connect registered: connectionLostCallback runs connect
LinkLost(t) ==
    /\ tcp_connection_ # NULLPTR
    /\ losses < MaxLosses
    /\ losses' = losses + 1
    /\ Enter(t, ConnectionLost)
    /\ UNCHANGED calls

\* the context of the held TCPConnection is inside connectionLostCallback: the object
\* that reported the loss is still the one held
TransportBusy == Reconnecting /\ tcp_connection_ = obs[Transport].handle

\* the TCPConnection held by the channel delivers a chunk to the callback that
\* connect registered
Receive(data) ==
    /\ ~crashed
    /\ tcp_connection_ # NULLPTR
    /\ ~TransportBusy
    /\ ~(\E t \in Threads : op[t] = Destructor /\ Done(t))
    /\ msgs < MaxMsgs
    /\ handleReceivedTCPData(data)
    /\ msgs' = msgs + 1
    /\ LET awaiting == {t \in Threads : Outstanding(t)} IN
        /\ lastChunk' = [tag |-> TagOf(data), awaiting |-> awaiting]
        /\ lastOutcome' = IF RecordsOutcome(data) THEN data ELSE lastOutcome
    /\ obs' = [t \in Threads |->
                 [obs[t] EXCEPT
                    !.next = IF Submitted(t) /\ @ = "none" /\ RecordsOutcome(data)
                               THEN (IF data = Accepted(command[t][1]) THEN "success"
                                                                       ELSE "other")
                               ELSE @,
                    !.failureSeen = @ \/ (Outstanding(t) /\ TagOf(data) \in Failures),
                    !.sessionEndSeen = @ \/ (Outstanding(t) /\ TagOf(data) \in SessionEnds),
                    !.earlyOutcome = @ \/ (pc[t] = "scw_lock" /\ RecordsOutcome(data))]]
    /\ UNCHANGED <<frames, objects, calls>>
    /\ UNCHANGED <<losses, server>>

\* ----------------------------------------------------- specifications
\* one caller thread (callers serialized, as the channel requires) and the transport
Next ==
    \/ \E t \in Callers, o \in Operations : Call(t, o)
    \/ \E t \in Callers : Step(t)
    \/ \E data \in WellFormed : Receive(data)

Spec == Init /\ [][Next]_vars

\* the scheduler runs a caller thread that can take a step; the peer owes no chunk
FairSpec == Spec /\ \A t \in Callers : WF_vars(Step(t))

\* two caller threads that do not serialize their calls, and a peer that answers
\* with these chunks
ConcChunks == {Accepted(CONNECT), Accepted(DISCONNECT), Accepted(START_FRI), <<UNKNOWN>>}
ConcOperations == {"connect", "disconnect", "startFRI"}
NextConc ==
    \/ \E t \in ConcCallers, o \in ConcOperations : Call(t, o)
    \/ \E t \in ConcCallers : Step(t)
    \/ \E data \in ConcChunks : Receive(data)

SpecConc == Init /\ [][NextConc]_vars

\* one caller thread and a peer whose ACCEPTED and REJECTED chunks may be cut short
NextMalformed ==
    \/ \E t \in Callers, o \in Operations : Call(t, o)
    \/ \E t \in Callers : Step(t)
    \/ \E data \in WellFormed \cup Short : Receive(data)

SpecMalformed == Init /\ [][NextMalformed]_vars

\* one caller thread, the transport reporting the loss of the link, and a peer that
\* answers with these chunks
NextLoss ==
    \/ \E t \in Callers, o \in ConcOperations : Call(t, o)
    \/ \E t \in Callers \cup {Transport} : Step(t)
    \/ LinkLost(Transport)
    \/ \E data \in ConcChunks : Receive(data)

SpecLoss == Init /\ [][NextLoss]_vars

\* the same, with the caller keeping to one operation at a time: it calls nothing
\* while connectionLostCallback runs, and the link is reported lost between its calls
ReconnectChunks == {Accepted(CONNECT), Accepted(DISCONNECT), <<UNKNOWN>>}
NextReconnect ==
    \/ \E t \in Callers, o \in {"connect", "disconnect"} : ~Reconnecting /\ Call(t, o)
    \/ \E t \in Callers \cup {Transport} : Step(t)
    \/ (\A t \in Callers : pc[t] \in {"idle", "done"}) /\ LinkLost(Transport)
    \/ \E data \in ReconnectChunks : Receive(data)

SpecReconnect == Init /\ [][NextReconnect]_vars

\* one caller thread that in the end destroys the channel
NextTeardown ==
    \/ \E t \in Callers, o \in Operations \cup {Destructor} : Call(t, o)
    \/ \E t \in Callers : Step(t)
    \/ \E data \in WellFormed : Receive(data)

\* the scheduler runs a thread that can take a step; the peer owes no chunk
FairTeardown == Init /\ [][NextTeardown]_vars /\ \A t \in Callers : WF_vars(Step(t))

\* ----------------------------------------------------- datagram server
\* AbstractUDPServerInterface::callback: the consumer's reply to the exchange unit; any
\* payload, the consumer is the user's
callback(server_data) == Replies

\* UDPServer::startAsynchronousReceive: a receive is outstanding on the socket
startAsynchronousReceive == pending' = "receive"

\* the exchange just completed, in the history
Noted(exchange, error) == [exchange EXCEPT !.completed = TRUE, !.sendFailed = error]

\* UDPServer::UDPServer: the socket is opened and bound, or the bind fails and the
\* server stays uninitialized and does no I/O; once bound, the first receive is armed
UDPServer(bound) ==
    /\ pending = "unconstructed"
    /\ initialized_' = bound
    /\ IF bound THEN startAsynchronousReceive ELSE pending' = "none"
    /\ UNCHANGED <<remote_endpoint_, server_data_, outgoing, callbacks, sends, exchanges>>
    /\ UNCHANGED channel

\* UDPServer::receiveCallback that arms the next receive as soon as the send is started
receiveCallback_rearming(error, bytes_transferred, peer) ==
    /\ pending = "receive"
    /\ Len(exchanges) < MaxDatagrams
    /\ startAsynchronousReceive
    /\ IF ~error
         THEN /\ remote_endpoint_' = peer
              /\ server_data_' = [port_number |-> peer,
                                  bytes_transferred |-> bytes_transferred]
              /\ \E reply \in callback(server_data_') :
                    /\ outgoing' = [to |-> remote_endpoint_', bytes |-> reply]
                    /\ exchanges' = Append(exchanges,
                          [peer |-> peer, error |-> FALSE, reply |-> reply,
                           sent |-> outgoing', completed |-> FALSE, sendFailed |-> FALSE])
              /\ callbacks' = callbacks + 1
              /\ sends' = sends + 1
         ELSE /\ exchanges' = Append(exchanges,
                     [peer |-> peer, error |-> TRUE, reply |-> <<>>,
                      sent |-> NoDatagram, completed |-> FALSE, sendFailed |-> FALSE])
              /\ UNCHANGED <<remote_endpoint_, server_data_, outgoing, callbacks, sends>>
    /\ UNCHANGED initialized_
    /\ UNCHANGED channel

\* UDPServer::receiveCallback, the completion of the receive.  Without error: the
\* exchange unit is filled, the consumer is called, the reply is sent to the peer the
\* datagram came from, and the receive is armed again by the send's completion.  With
\* an error: no callback, the receive is armed again at once.
receiveCallback(error, bytes_transferred, peer) ==
    /\ pending = "receive"
    /\ Len(exchanges) < MaxDatagrams
    /\ IF ~error
         THEN /\ remote_endpoint_' = peer
              /\ server_data_' = [port_number |-> peer,
                                  bytes_transferred |-> bytes_transferred]
              /\ \E reply \in callback(server_data_') :
                    /\ outgoing' = [to |-> remote_endpoint_', bytes |-> reply]
                    /\ exchanges' = Append(exchanges,
                          [peer |-> peer, error |-> FALSE, reply |-> reply,
                           sent |-> outgoing', completed |-> FALSE, sendFailed |-> FALSE])
              /\ callbacks' = callbacks + 1
              /\ sends' = sends + 1
              /\ pending' = "send"
         ELSE /\ startAsynchronousReceive
              /\ exchanges' = Append(exchanges,
                     [peer |-> peer, error |-> TRUE, reply |-> <<>>,
                      sent |-> NoDatagram, completed |-> FALSE, sendFailed |-> FALSE])
              /\ UNCHANGED <<remote_endpoint_, server_data_, outgoing, callbacks, sends>>
    /\ UNCHANGED initialized_
    /\ UNCHANGED channel

\* UDPServer::sendCallback that arms the next receive only after a send without error
sendCallback_stalling(error, bytes_transferred) ==
    /\ pending = "send"
    /\ IF error THEN pending' = "none" ELSE startAsynchronousReceive
    /\ outgoing' = NoDatagram
    /\ exchanges' = [exchanges EXCEPT ![Len(exchanges)] = Noted(@, error)]
    /\ UNCHANGED <<initialized_, remote_endpoint_, server_data_, callbacks, sends>>
    /\ UNCHANGED channel

\* UDPServer::sendCallback, the completion of the send: an error is only reported, and
\* the receive is armed again in either case
sendCallback(error, bytes_transferred) ==
    /\ pending = "send"
    /\ startAsynchronousReceive
    /\ outgoing' = NoDatagram
    /\ exchanges' = [exchanges EXCEPT ![Len(exchanges)] = Noted(@, error)]
    /\ UNCHANGED <<initialized_, remote_endpoint_, server_data_, callbacks, sends>>
    /\ UNCHANGED channel

\* the datagram server, its socket's completions, and peers that send datagrams
Sizes == {1, 3}
NextUdp ==
    \/ \E bound \in BOOLEAN : UDPServer(bound)
    \/ \E error \in BOOLEAN, n \in Sizes, peer \in Peers : receiveCallback(error, n, peer)
    \/ \E error \in BOOLEAN, n \in {0, 1, 2} : sendCallback(error, n)

SpecUdp == Init /\ [][NextUdp]_vars

\* a send that was started completes
FairUdp == SpecUdp /\ WF_vars(\E error \in BOOLEAN, n \in {0, 1, 2} : sendCallback(error, n))

\* ------------------------------------------------------------- claims

\* C1: sendCommandAndWait(C) on an open transport returns true if and only if the next
\* outcome chunk received after the call was entered is Accepted, echoing C, with SUCCESS.
C1_TrueIffNextOutcomeAccepted ==
    \A t \in Callers :
        (Done(t) /\ obs[t].waited /\ obs[t].sent # <<>>)
            => (result[t] <=> obs[t].next = "success")

\* C2: two calls are never both transmitted and awaiting their outcome on the one
\* channel: the second submission is stopped before it transmits.
C2_SecondSubmissionDetected ==
    \A t1, t2 \in Threads :
        (t1 # t2 /\ Outstanding(t1) /\ obs[t1].transmitted)
            => ~(Outstanding(t2) /\ obs[t2].transmitted)

\* C3: a call during which a Rejected or Unrecognized outcome was delivered while its
\* command was outstanding returns, and it returns false.
C3_FailureOutcomeReturnsFalse ==
    /\ \A t \in Callers : (Outstanding(t) /\ obs[t].failureSeen) ~> Done(t)
    /\ [](\A t \in Callers : (Done(t) /\ obs[t].failureSeen) => (~result[t] /\ ~ret[t]))

\* C4: a session-end chunk received while no command is outstanding leaves the
\* received flag and the outcome record alone and starts the handler of its kind once,
\* the other handler not at all.
C4_UnsolicitedSessionEnd ==
    [][\A tag \in SessionEnds :
         (msgs' = msgs + 1 /\ lastChunk'.tag = tag /\ lastChunk'.awaiting = {})
            => /\ answer_received_' = answer_received_
               /\ record' = record
               /\ controlEndedCalls' =
                     controlEndedCalls + (IF tag = ERROR_CONTROL_ENDED THEN 1 ELSE 0)
               /\ friEndedCalls' = friEndedCalls + (IF tag = ERROR_FRI_ENDED THEN 1 ELSE 0)]_vars

C4_Witness ==
    /\ lastChunk.tag = ERROR_CONTROL_ENDED
    /\ lastChunk.awaiting = {}
    /\ controlEndedCalls = 1
    /\ friEndedCalls = 0

\* C5: a session-end chunk received while a command is outstanding starts no handler
\* and is recorded as the outcome; the call it was received in returns false.
C5_SessionEndWhileOutstanding ==
    /\ [][\A tag \in SessionEnds :
            (msgs' = msgs + 1 /\ lastChunk'.tag = tag /\ lastChunk'.awaiting # {})
               => /\ answer_received_'
                  /\ last_command_state_' = tag
                  /\ handlers' = handlers]_vars
    /\ [](\A t \in Callers : (Done(t) /\ obs[t].sessionEndSeen) => (~result[t] /\ ~ret[t]))

C7_DisconnectWithoutTransport ==
    [][\A t \in Callers :
         (pc[t] = "disconnect_check" /\ tcp_connection_ = NULLPTR /\ pc'[t] # pc[t])
            => /\ pc'[t] = "done" /\ ret'[t]
               /\ obs'[t].sent = <<>> /\ ~obs'[t].waited /\ ~obs'[t].wantedSet
               /\ answer_wanted_' = answer_wanted_
               /\ answer_received_' = answer_received_
               /\ record' = record]_vars

C7_Witness ==
    \E t \in Callers :
        /\ Done(t) /\ op[t] = "disconnect" /\ obs[t].handle = NULLPTR
        /\ ret[t] /\ obs[t].sent = <<>>

\* C8: a connect whose transport open failed submits nothing, never sets the awaiting
\* flag, and returns false with no transport held.
C8_ConnectOpenFails ==
    \A t \in Callers :
        (op[t] = "connect" /\ obs[t].openFailed)
            => /\ obs[t].sent = <<>> /\ ~obs[t].wantedSet
               /\ \/ pc[t] = "connect_check"
                  \/ Done(t) /\ ~ret[t] /\ ~isConnected

C8_Witness ==
    \E t \in Callers :
        /\ Done(t) /\ op[t] = "connect" /\ obs[t].openFailed
        /\ ~ret[t] /\ obs[t].sent = <<>>

C10_SendFailureReturnsFalse ==
    \A t \in Callers :
        (Outstanding(t) /\ obs[t].sendFailed /\ obs[t].sent # <<>>)
            ~> (Done(t) /\ ~ret[t])

\* C19: with one caller, an outcome delivered after the command was transmitted and
\* before the caller holds m_ is not lost: the caller's first test of the flag under
\* m_ succeeds, so it never blocks in cv_.wait and sendCommandAndWait returns in that
\* step; and the step in which sendCommandAndWait returns leaves answer_wanted_ and
\* answer_received_ false.
C19_NoLostWakeup ==
    /\ [](\A t \in Callers : obs[t].earlyOutcome => pc[t] # "scw_blocked")
    /\ [][\A t \in Callers :
            (pc[t] = "scw_wait" /\ obs[t].earlyOutcome /\ pc'[t] # pc[t])
               => pc'[t] \in {"done", "disconnect_after"}]_vars
    /\ [][\A t \in Callers :
            (pc[t] = "scw_wait" /\ pc'[t] \in {"done", "disconnect_after"})
               => (~answer_wanted_' /\ ~answer_received_')]_vars

C19_Witness ==
    \E t \in Callers :
        /\ Done(t) /\ obs[t].earlyOutcome /\ obs[t].waited
        /\ ~answer_wanted_ /\ ~answer_received_

\* C20: once connect has returned, isConnected() equals what connect returned.
C20_IsConnectedAgreesWithConnect ==
    \A t \in Callers :
        (Done(t) /\ op[t] = "connect") => (ret[t] <=> isConnected)

\* C14: an ACCEPTED chunk of fewer than 3 bytes or a REJECTED chunk of fewer than 2,
\* received while a command is outstanding, does not end the process, sets the flag the
\* waiter waits for, and the command it resolves returns false.
C14_ShortPayload ==
    /\ [][(/\ msgs' = msgs + 1
           /\ lastChunk'.tag \in {ACCEPTED, REJECTED}
           /\ lastOutcome' \in Short
           /\ lastChunk'.awaiting # {})
             => (~crashed' /\ answer_received_')]_vars
    /\ [](\A t \in Callers :
            (Done(t) /\ obs[t].waited /\ obs[t].resolvedBy \in Short) => ~result[t])

\* C18: an unsolicited session end is handed to the handler without waiting for it:
\* handleReceivedTCPData ends with m_ released although no handler ever returns, so the
\* receive context never keeps m_, and a caller whose outcome has arrived can go on.
C18_HandlerNotAwaited ==
    /\ [][(msgs' = msgs + 1 /\ lastChunk'.tag \in SessionEnds /\ handlers' # handlers)
             => m_' = FREE]_vars
    /\ [](controlEndedCalls + friEndedCalls > 0 => m_ \in {FREE} \cup Callers)
    /\ [](\A t \in Callers :
            (/\ controlEndedCalls + friEndedCalls > 0
             /\ pc[t] = "scw_blocked" /\ answer_received_ /\ ~crashed)
               => ENABLED scw_blocked(t))

C18_Witness ==
    \E t \in Callers :
        /\ controlEndedCalls + friEndedCalls > 0
        /\ lastChunk.tag = ACCEPTED /\ lastChunk.awaiting = {t}
        /\ Done(t) /\ obs[t].waited /\ ret[t]
        /\ obs[t].resolvedBy = Accepted(command[t][1])

\* C11: connectionLostCallback returns to the transport without waiting for the
\* reconnect: the context that reported the loss is never inside the callback opening
\* the transport, nor waiting there for the outcome of Connect.
C11_CallbackDoesNotWait ==
    ~(Reconnecting /\ pc[Transport] \in {"connect_open", "scw_wait", "scw_blocked"})

\* C12: a link-loss notification runs the connect path once: one open of the transport
\* and at most one Connect; when that attempt has failed, the callback is over and
\* nothing more is attempted until the next notification.
C12_OneReconnectAttempt ==
    /\ [](op[Transport] = ConnectionLost
            => /\ obs[Transport].opens <= 1
               /\ Len(obs[Transport].sent) <= 1
               /\ pc[Transport] \notin {"idle", "connect_open"} => obs[Transport].opens = 1)
    /\ [][(Done(Transport) /\ losses' = losses)
             => /\ pc'[Transport] = "done"
                /\ obs'[Transport].opens = obs[Transport].opens
                /\ obs'[Transport].sent = obs[Transport].sent]_vars

C12_Witness ==
    /\ op[Transport] = ConnectionLost /\ Done(Transport) /\ ~ret[Transport]
    /\ obs[Transport].opens = 1 /\ obs[Transport].waited
    /\ msgs = MaxMsgs

\* C15: a public operation called while connectionLostCallback is running, and that
\* submits its command, returns false.
C15_CommandDuringReconnect ==
    \A t \in Callers :
        (Done(t) /\ obs[t].reconnecting /\ obs[t].sent # <<>>) => ~ret[t]

\* C13: tearing the channel down does not hang: the destructor's own wait for the
\* outcome of Disconnect ends and the destructor returns, whether or not the peer
\* sends anything more (behaviours in which it sends all it can are left aside).
C13_TeardownTerminates ==
    \A t \in Callers :
        (op[t] = Destructor /\ Outstanding(t) /\ msgs < MaxMsgs)
            ~> (Done(t) \/ crashed \/ msgs = MaxMsgs)

\* C16: the datagram server calls the consumer once for each receive that completes
\* without error and for no other; after every completion, of a receive with an error
\* or of a send with or without one, a receive is armed again.
C16_CallbackPerGoodReceive ==
    /\ [](callbacks = Cardinality({i \in DOMAIN exchanges : ~exchanges[i].error}))
    /\ [](initialized_ => pending \in {"receive", "send"})
    /\ [][(Len(exchanges') > Len(exchanges) /\ exchanges'[Len(exchanges')].error)
             => (pending' = "receive" /\ callbacks' = callbacks)]_vars
    /\ [][(pending = "send" /\ pending' # "send") => pending' = "receive"]_vars
    /\ (pending = "send") ~> (pending = "receive")

C16_Witness ==
    /\ pending = "receive"
    /\ callbacks = 1
    /\ \E i, j \in DOMAIN exchanges :
          /\ i < j
          /\ exchanges[i].error
          /\ ~exchanges[j].error /\ exchanges[j].completed /\ exchanges[j].sendFailed

\* C17: for each datagram received without error from a peer there is one reply, with
\* the bytes the consumer returned, sent to that peer; the next receive is armed only
\* when that send has completed, and the consumer is not called again before.
C17_OneReplyPerDatagram ==
    /\ [](sends = Cardinality({i \in DOMAIN exchanges : ~exchanges[i].error}))
    /\ [](\A i \in DOMAIN exchanges :
            ~exchanges[i].error
               => exchanges[i].sent = [to |-> exchanges[i].peer, bytes |-> exchanges[i].reply])
    /\ [](pending = "receive"
            => \A i \in DOMAIN exchanges : ~exchanges[i].error => exchanges[i].completed)
    /\ [](pending = "send"
            => /\ outgoing = exchanges[Len(exchanges)].sent
               /\ ~exchanges[Len(exchanges)].completed)
    /\ [][callbacks' # callbacks
             => /\ pending = "receive" /\ pending' = "send"
                /\ callbacks' = callbacks + 1 /\ sends' = sends + 1
                /\ \A i \in DOMAIN exchanges : ~exchanges[i].error => exchanges[i].completed]_vars

C17_Witness ==
    /\ pending = "receive"
    /\ \E i, j \in DOMAIN exchanges :
          /\ i < j
          /\ ~exchanges[i].error /\ exchanges[i].completed
          /\ ~exchanges[j].error /\ exchanges[j].completed
          /\ exchanges[i].peer # exchanges[j].peer
          /\ exchanges[i].reply # exchanges[j].reply

====
